---- MODULE Spec2Model ----
(***************************************************************************)
(* Model of programs/wager-program/src/validation.rs: the validation       *)
(* module, the safe_math module and the two reentrancy-guard macros.       *)
(*                                                                         *)
(* A u64 is a natural number written little-endian in base 2^8, without    *)
(* leading zero limbs (zero is the empty sequence).  A value fits the u64  *)
(* width when it has at most Limbs limbs; arithmetic on these sequences is *)
(* exact, so a checked operation is the exact result plus the width test,  *)
(* and a wrapping operation is the exact result cut to Limbs limbs.        *)
(***************************************************************************)
EXTENDS Integers, Sequences, FiniteSets, TLC

VARIABLES session, pc, last, disciplined, call

vars == <<session, pc, last, disciplined, call>>

guardVars == <<session, pc, last, disciplined>>

-----------------------------------------------------------------------------
(* Exact natural-number arithmetic on limb sequences *)

Base == 256

Limbs == 8

RECURSIVE Norm(_)
Norm(x) ==
    IF x = <<>> THEN <<>>
    ELSE IF x[Len(x)] = 0 THEN Norm(SubSeq(x, 1, Len(x) - 1))
    ELSE x

RECURSIVE FromNat(_)
FromNat(n) ==
    IF n = 0 THEN <<>> ELSE <<n % Base>> \o FromNat(n \div Base)

Limb(x, i) == IF i <= Len(x) THEN x[i] ELSE 0

Rest(x) == IF x = <<>> THEN <<>> ELSE Tail(x)

RECURSIVE BAddC(_, _, _)
BAddC(a, b, c) ==
    IF a = <<>> /\ b = <<>> THEN (IF c = 0 THEN <<>> ELSE <<c>>)
    ELSE LET s == Limb(a, 1) + Limb(b, 1) + c
         IN  <<s % Base>> \o BAddC(Rest(a), Rest(b), s \div Base)

BAdd(a, b) == BAddC(a, b, 0)

RECURSIVE BLessFrom(_, _, _)
BLessFrom(a, b, i) ==
    IF i = 0 THEN FALSE
    ELSE IF a[i] # b[i] THEN a[i] < b[i]
    ELSE BLessFrom(a, b, i - 1)

BLess(a, b) ==
    IF Len(a) # Len(b) THEN Len(a) < Len(b) ELSE BLessFrom(a, b, Len(a))

BLeq(a, b) == ~BLess(b, a)

\* a - b for a >= b
RECURSIVE BSubB(_, _, _)
BSubB(a, b, w) ==
    IF a = <<>> THEN <<>>
    ELSE LET d == a[1] - Limb(b, 1) - w
         IN  <<d % Base>> \o BSubB(Tail(a), Rest(b), IF d < 0 THEN 1 ELSE 0)

BSub(a, b) == Norm(BSubB(a, b, 0))

RECURSIVE BMulLimb(_, _, _)
BMulLimb(a, d, c) ==
    IF a = <<>> THEN FromNat(c)
    ELSE LET p == a[1] * d + c
         IN  <<p % Base>> \o BMulLimb(Tail(a), d, p \div Base)

ShiftLimb(x) == IF x = <<>> THEN <<>> ELSE <<0>> \o x

RECURSIVE BMul(_, _)
BMul(a, b) ==
    IF a = <<>> \/ b = <<>> THEN <<>>
    ELSE BAdd(BMulLimb(a, b[1], 0), ShiftLimb(BMul(a, Tail(b))))

PushLimb(x, d) == IF x = <<>> /\ d = 0 THEN <<>> ELSE <<d>> \o x

\* The largest digit q with q * b <= r, for r < Base * b, found bit by bit
RECURSIVE QuotBits(_, _, _, _)
QuotBits(r, b, bit, acc) ==
    IF bit = 0 THEN acc
    ELSE IF BLeq(BMulLimb(b, acc + bit, 0), r)
         THEN QuotBits(r, b, bit \div 2, acc + bit)
         ELSE QuotBits(r, b, bit \div 2, acc)

\* One step of long division: h is <<quotient, remainder>> of the limbs above
DivLimbStep(h, limb, b) ==
    LET r == PushLimb(h[2], limb)
        q == QuotBits(r, b, Base \div 2, 0)
    IN  <<PushLimb(h[1], q), BSub(r, IF q = 0 THEN <<>> ELSE BMulLimb(b, q, 0))>>

RECURSIVE BDivFrom(_, _, _)
BDivFrom(a, b, i) ==
    IF i > Len(a) THEN <<(<<>>), (<<>>)>>
    ELSE DivLimbStep(BDivFrom(a, b, i + 1), a[i], b)

\* <<quotient, remainder>> of a by b, b # 0
BDivMod(a, b) == BDivFrom(a, b, 1)

Fits(x) == Len(x) <= Limbs

Wrap(x) == IF Fits(x) THEN x ELSE Norm(SubSeq(x, 1, Limbs))

RECURSIVE Ones(_)
Ones(n) == IF n = 0 THEN <<>> ELSE <<Base - 1>> \o Ones(n - 1)

U64Max == Ones(Limbs)

-----------------------------------------------------------------------------
(* Result<T> and Option<T> *)

Ok(v) == [ok |-> TRUE, val |-> v, err |-> "none"]

Err(e) == [ok |-> FALSE, val |-> <<>>, err |-> e]

Unit == <<>>

Some(v) == [some |-> TRUE, val |-> v]

None == [some |-> FALSE, val |-> <<>>]

ok_or(o, e) == IF o.some THEN Ok(o.val) ELSE Err(e)

-----------------------------------------------------------------------------
(* Strings: a &str is a sequence of chars, a char its Unicode code point.  *)
(* str::len counts UTF-8 bytes, chars() yields the code points.            *)

len_utf8(c) ==
    IF c < 128 THEN 1 ELSE IF c < 2048 THEN 2 ELSE IF c < 65536 THEN 3 ELSE 4

RECURSIVE str_len(_)
str_len(s) == IF s = <<>> THEN 0 ELSE len_utf8(Head(s)) + str_len(Tail(s))

is_empty(s) == str_len(s) = 0

\* The non-ASCII code points of the modelled alphabet that are Alphabetic or
\* numeric (Nd, Nl, No): e-acute, Arabic-Indic digit three, CJK U+4E2D,
\* mathematical double-struck digit zero
UnicodeAlphanumeric == {233, 1635, 20013, 120792}

is_alphanumeric(c) ==
    \/ c \in 48..57
    \/ c \in 65..90
    \/ c \in 97..122
    \/ c \in UnicodeAlphanumeric

Dash == 45

Underscore == 95

-----------------------------------------------------------------------------
(* mod validation *)

MaxSessionIdLen == 32

session_id_char_ok(c) == is_alphanumeric(c) \/ c = Dash \/ c = Underscore

\* Variant: the length limit counted in chars instead of bytes
validate_session_id_chars(session_id) ==
    IF is_empty(session_id) THEN Err("InvalidSessionId")
    ELSE IF ~(Len(session_id) <= MaxSessionIdLen) THEN Err("SessionIdTooLong")
    ELSE IF ~(\A i \in 1..Len(session_id) : session_id_char_ok(session_id[i]))
         THEN Err("InvalidSessionIdFormat")
    ELSE Ok(Unit)

validate_session_id(session_id) ==
    IF is_empty(session_id) THEN Err("InvalidSessionId")
    ELSE IF ~(str_len(session_id) <= MaxSessionIdLen) THEN Err("SessionIdTooLong")
    ELSE IF ~(\A i \in 1..Len(session_id) : session_id_char_ok(session_id[i]))
         THEN Err("InvalidSessionIdFormat")
    ELSE Ok(Unit)

validate_team_number(team) ==
    IF ~(team = 0 \/ team = 1) THEN Err("InvalidTeamSelection") ELSE Ok(Unit)

\* 1_000_000_000_000
MaxBetAmount == BMul(FromNat(1000000), FromNat(1000000))

\* Variant: a ceiling with three more zeros, 1_000_000_000_000_000
validate_bet_amount_wide(amount) ==
    IF ~BLess(<<>>, amount) THEN Err("InvalidBetAmount")
    ELSE IF ~BLeq(amount, BMul(MaxBetAmount, FromNat(1000)))
         THEN Err("InvalidBetAmount")
    ELSE Ok(Unit)

validate_bet_amount(amount) ==
    IF ~BLess(<<>>, amount) THEN Err("InvalidBetAmount")
    ELSE IF ~BLeq(amount, MaxBetAmount) THEN Err("InvalidBetAmount")
    ELSE Ok(Unit)

\* Pubkey::default(), the all-zero key; the other keys are 1, 2, ...
PubkeyDefault == 0

validate_player_address(player) ==
    IF ~(player # PubkeyDefault) THEN Err("InvalidPlayer") ELSE Ok(Unit)

validate_remaining_accounts_count(count, max_count) ==
    IF ~(count <= max_count) THEN Err("TooManyRemainingAccounts") ELSE Ok(Unit)

\* Variant: the address checks made before the kill checks
validate_kill_data_address_first(killer, victim, killer_team, victim_team) ==
    IF ~validate_player_address(killer).ok THEN validate_player_address(killer)
    ELSE IF ~validate_player_address(victim).ok THEN validate_player_address(victim)
    ELSE IF ~(killer # victim) THEN Err("InvalidKill")
    ELSE IF ~(killer_team # victim_team) THEN Err("InvalidKill")
    ELSE Ok(Unit)

validate_kill_data(killer, victim, killer_team, victim_team) ==
    IF ~(killer # victim) THEN Err("InvalidKill")
    ELSE IF ~(killer_team # victim_team) THEN Err("InvalidKill")
    ELSE IF ~validate_player_address(killer).ok THEN validate_player_address(killer)
    ELSE IF ~validate_player_address(victim).ok THEN validate_player_address(victim)
    ELSE Ok(Unit)

-----------------------------------------------------------------------------
(* u64 checked primitives, as the standard library computes them *)

checked_mul(a, b) ==
    LET p == BMul(a, b) IN IF Fits(p) THEN Some(p) ELSE None

checked_div(a, b) ==
    IF b = <<>> THEN None ELSE Some(BDivMod(a, b)[1])

checked_add(a, b) ==
    LET s == BAdd(a, b) IN IF Fits(s) THEN Some(s) ELSE None

checked_sub(a, b) ==
    IF BLess(a, b) THEN None ELSE Some(BSub(a, b))

-----------------------------------------------------------------------------
(* mod safe_math *)

\* Variant: wrapping_mul in place of checked_mul
safe_multiply_wrapping(a, b) == Ok(Wrap(BMul(a, b)))

safe_multiply(a, b) == ok_or(checked_mul(a, b), "ArithmeticOverflow")

\* Variant: the divisor test left to checked_div
safe_divide_unguarded(a, b) == ok_or(checked_div(a, b), "ArithmeticOverflow")

safe_divide(a, b) ==
    IF ~BLess(<<>>, b) THEN Err("ArithmeticError")
    ELSE ok_or(checked_div(a, b), "ArithmeticOverflow")

safe_add(a, b) == ok_or(checked_add(a, b), "ArithmeticOverflow")

safe_subtract(a, b) == ok_or(checked_sub(a, b), "ArithmeticUnderflow")

Ten == 10

\* Variant: the division made before the multiplication
safe_earnings_calculation_divide_first(kills_and_spawns, session_bet) ==
    LET kills_spawns_u64 == FromNat(kills_and_spawns)
        divided == safe_divide(session_bet, FromNat(Ten))
    IN  IF ~divided.ok THEN divided
        ELSE safe_multiply(kills_spawns_u64, divided.val)

safe_earnings_calculation(kills_and_spawns, session_bet) ==
    LET kills_spawns_u64 == FromNat(kills_and_spawns)
        multiplied == safe_multiply(kills_spawns_u64, session_bet)
    IN  IF ~multiplied.ok THEN multiplied
        ELSE safe_divide(multiplied.val, FromNat(Ten))

-----------------------------------------------------------------------------
(* The reentrancy-guard macros, as functions of the session record *)

\* Variant: the flag set before it is tested
reentrancy_guard_set_first(game_session) ==
    [res |-> Err("AlreadyProcessing"),
     game_session |-> [game_session EXCEPT !.is_processing = TRUE]]

\* Variant: the flag set without being tested
reentrancy_guard_unchecked(game_session) ==
    [res |-> Ok(Unit),
     game_session |-> [game_session EXCEPT !.is_processing = TRUE]]

reentrancy_guard(game_session) ==
    IF ~(~game_session.is_processing)
    THEN [res |-> Err("AlreadyProcessing"), game_session |-> game_session]
    ELSE [res |-> Ok(Unit),
          game_session |-> [game_session EXCEPT !.is_processing = TRUE]]

\* Variant: the flag flipped instead of cleared
release_reentrancy_guard_toggle(game_session) ==
    [game_session EXCEPT !.is_processing = ~game_session.is_processing]

release_reentrancy_guard(game_session) ==
    [game_session EXCEPT !.is_processing = FALSE]

-----------------------------------------------------------------------------
(* Bounds and inputs *)

NumInvocations == 3

MaxData == 2

MaxSmall == 11

MaxIdChars == 34

NumKeys == 2

MaxTeam == 2

MaxCount == 3

Invocations == 1..NumInvocations

NoCall == [fn |-> "none", args |-> <<>>, res |-> Ok(Unit)]

NoOp == [op |-> "none", inv |-> 0, pre |-> [is_processing |-> FALSE, data |-> 0],
         held |-> FALSE, res |-> Ok(Unit), prev |-> "none"]

RECURSIVE Repeat(_, _)
Repeat(c, n) == IF n = 0 THEN <<>> ELSE <<c>> \o Repeat(c, n - 1)

U16Max == 65535

U64Inputs ==
    {FromNat(n) : n \in 0..MaxSmall}
    \cup {FromNat(255), FromNat(256), FromNat(U16Max), FromNat(U16Max + 1)}
    \cup {BSub(MaxBetAmount, <<1>>), MaxBetAmount, BAdd(MaxBetAmount, <<1>>)}
    \cup {BDivMod(U64Max, FromNat(U16Max))[1],
          BAdd(BDivMod(U64Max, FromNat(U16Max))[1], <<1>>),
          BDivMod(U64Max, FromNat(Ten))[1],
          BAdd(BDivMod(U64Max, FromNat(Ten))[1], <<1>>),
          BDivMod(U64Max, <<2>>)[1],
          BAdd(BDivMod(U64Max, <<2>>)[1], <<1>>),
          Ones(Limbs \div 2), BAdd(Ones(Limbs \div 2), <<1>>),
          BSub(U64Max, <<1>>), U64Max}

U16Inputs == (0..MaxSmall) \cup {255, 256, U16Max - 1, U16Max}

\* 'a', '7', '-', '_', '!', e-acute (2 bytes), euro sign (3 bytes),
\* double-struck digit zero (4 bytes)
Alphabet == {97, 55, Dash, Underscore, 33, 233, 8364, 120792}

SessionIdInputs ==
    {Repeat(c, n) : c \in Alphabet, n \in 0..MaxIdChars}
    \cup {Repeat(c, n) \o <<d>> : c \in {97, 233, 120792}, d \in Alphabet,
                                  n \in 0..MaxIdChars}
    \cup {<<d>> \o Repeat(c, n) : c \in {97, 233, 120792}, d \in Alphabet,
                                  n \in 0..MaxIdChars}

Pubkeys == 0..NumKeys

TeamInputs == (0..MaxTeam) \cup {255}

-----------------------------------------------------------------------------
(* The session's guard, driven by the invocations of the instruction       *)
(* handlers that bracket their critical section with the two macros        *)

Holders == {i \in Invocations : pc[i] = "critical"}

Step(name, i, r) ==
    [op |-> name, inv |-> i, pre |-> session, held |-> Holders # {},
     res |-> r, prev |-> last.op]

Init ==
    /\ session \in [is_processing : {FALSE}, data : 0..MaxData]
    /\ pc = [i \in Invocations |-> "start"]
    /\ last = NoOp
    /\ disciplined = TRUE
    /\ call = NoCall

Acquire(i) ==
    /\ pc[i] = "start"
    /\ LET g == reentrancy_guard(session)
       IN  /\ session' = g.game_session
           /\ pc' = [pc EXCEPT ![i] = IF g.res.ok THEN "critical" ELSE "rejected"]
           /\ last' = Step("acquire", i, g.res)
    /\ UNCHANGED <<disciplined, call>>

Work(i) ==
    /\ pc[i] = "critical"
    /\ session' = [session EXCEPT !.data = (session.data + 1) % (MaxData + 1)]
    /\ last' = Step("work", i, Ok(Unit))
    /\ UNCHANGED <<pc, disciplined, call>>

Release(i) ==
    /\ pc[i] = "critical"
    /\ session' = release_reentrancy_guard(session)
    /\ pc' = [pc EXCEPT ![i] = "done"]
    /\ last' = Step("release", i, Ok(Unit))
    /\ UNCHANGED <<disciplined, call>>

Fail(i) ==
    /\ pc[i] = "critical"
    /\ pc' = [pc EXCEPT ![i] = "failed"]
    /\ last' = Step("fail", i, Err("ArithmeticOverflow"))
    /\ UNCHANGED <<session, disciplined, call>>

StrayRelease(i) ==
    /\ pc[i] # "critical"
    /\ session' = release_reentrancy_guard(session)
    /\ disciplined' = FALSE
    /\ last' = Step("release", i, Ok(Unit))
    /\ UNCHANGED <<pc, call>>

Return(i) ==
    /\ pc[i] \in {"done", "failed", "rejected"}
    /\ pc' = [pc EXCEPT ![i] = "start"]
    /\ last' = Step("return", i, Ok(Unit))
    /\ UNCHANGED <<session, disciplined, call>>

Next ==
    \E i \in Invocations :
        \/ Acquire(i)
        \/ Work(i)
        \/ Release(i)
        \/ Fail(i)
        \/ StrayRelease(i)
        \/ Return(i)

Spec == Init /\ [][Next]_vars

-----------------------------------------------------------------------------
(* Calls of the pure functions, one at a time, on inputs of their types *)

Called(name, a, r) == call' = [fn |-> name, args |-> a, res |-> r]

CallValidateSessionId ==
    /\ call.fn = "none"
    /\ \E s \in SessionIdInputs :
          Called("validate_session_id", <<s>>, validate_session_id(s))
    /\ UNCHANGED guardVars

CallValidateTeamNumber ==
    /\ call.fn = "none"
    /\ \E t \in TeamInputs :
          Called("validate_team_number", <<t>>, validate_team_number(t))
    /\ UNCHANGED guardVars

CallValidateBetAmount ==
    /\ call.fn = "none"
    /\ \E a \in U64Inputs :
          Called("validate_bet_amount", <<a>>, validate_bet_amount(a))
    /\ UNCHANGED guardVars

CallValidatePlayerAddress ==
    /\ call.fn = "none"
    /\ \E p \in Pubkeys :
          Called("validate_player_address", <<p>>, validate_player_address(p))
    /\ UNCHANGED guardVars

CallValidateRemainingAccountsCount ==
    /\ call.fn = "none"
    /\ \E c \in 0..MaxCount, m \in 0..MaxCount :
          Called("validate_remaining_accounts_count", <<c, m>>,
                 validate_remaining_accounts_count(c, m))
    /\ UNCHANGED guardVars

CallValidateKillData ==
    /\ call.fn = "none"
    /\ \E k \in Pubkeys, v \in Pubkeys, kt \in TeamInputs, vt \in TeamInputs :
          Called("validate_kill_data", <<k, v, kt, vt>>,
                 validate_kill_data(k, v, kt, vt))
    /\ UNCHANGED guardVars

CallSafeMultiply ==
    /\ call.fn = "none"
    /\ \E a \in U64Inputs, b \in U64Inputs :
          Called("safe_multiply", <<a, b>>, safe_multiply(a, b))
    /\ UNCHANGED guardVars

CallSafeDivide ==
    /\ call.fn = "none"
    /\ \E a \in U64Inputs, b \in U64Inputs :
          Called("safe_divide", <<a, b>>, safe_divide(a, b))
    /\ UNCHANGED guardVars

CallSafeAdd ==
    /\ call.fn = "none"
    /\ \E a \in U64Inputs, b \in U64Inputs :
          Called("safe_add", <<a, b>>, safe_add(a, b))
    /\ UNCHANGED guardVars

CallSafeSubtract ==
    /\ call.fn = "none"
    /\ \E a \in U64Inputs, b \in U64Inputs :
          Called("safe_subtract", <<a, b>>, safe_subtract(a, b))
    /\ UNCHANGED guardVars

CallSafeEarningsCalculation ==
    /\ call.fn = "none"
    /\ \E k \in U16Inputs, bet \in U64Inputs :
          Called("safe_earnings_calculation", <<k, bet>>,
                 safe_earnings_calculation(k, bet))
    /\ UNCHANGED guardVars

CallReturn ==
    /\ call.fn # "none"
    /\ call' = NoCall
    /\ UNCHANGED guardVars

NextCalls ==
    \/ CallValidateSessionId
    \/ CallValidateTeamNumber
    \/ CallValidateBetAmount
    \/ CallValidatePlayerAddress
    \/ CallValidateRemainingAccountsCount
    \/ CallValidateKillData
    \/ CallSafeMultiply
    \/ CallSafeDivide
    \/ CallSafeAdd
    \/ CallSafeSubtract
    \/ CallSafeEarningsCalculation
    \/ CallReturn

SpecCalls == Init /\ [][NextCalls]_vars

-----------------------------------------------------------------------------
(* Properties of the guard, checked under Spec *)

IsAcquire == last.op = "acquire"

IsRelease == last.op = "release"

\* C1: an acquire on a session whose flag is false succeeds and leaves the
\* flag true; on a session whose flag is true it fails with AlreadyProcessing
\* and leaves the flag true; no other field of the session changes either way.
AcquireContract ==
    IsAcquire =>
        /\ ~last.pre.is_processing =>
              /\ last.res = Ok(Unit)
              /\ session = [last.pre EXCEPT !.is_processing = TRUE]
        /\ last.pre.is_processing =>
              /\ last.res = Err("AlreadyProcessing")
              /\ session = last.pre
              /\ session.is_processing

\* A rejected acquire on a session with non-default data, while the invocation
\* whose acquire succeeded is still in its critical section.
AcquireWitness ==
    /\ IsAcquire
    /\ last.res = Err("AlreadyProcessing")
    /\ last.pre.data # 0
    /\ \E j \in Invocations : j # last.inv /\ pc[j] = "critical"

\* C2: as long as release is only executed by the invocation that acquired,
\* an acquire made while some invocation is inside the critical section fails
\* with AlreadyProcessing, the flag is true whenever an invocation is inside,
\* and at most one invocation is inside.
MutualExclusion ==
    disciplined =>
        /\ Cardinality(Holders) <= 1
        /\ Holders # {} => session.is_processing
        /\ IsAcquire /\ last.held => last.res = Err("AlreadyProcessing")

\* A re-entrant acquire rejected while another invocation holds the guard.
MutualExclusionWitness ==
    /\ disciplined
    /\ IsAcquire
    /\ last.held
    /\ pc[last.inv] = "rejected"
    /\ Cardinality(Holders) = 1

\* C3: when an operation that acquired the guard ends, by its release or by
\* an early failure between acquire and release, the flag is false again.
GuardIsTransient ==
    disciplined /\ last.op \in {"release", "fail"} => ~session.is_processing

\* C4: release never fails and leaves the flag false and every other field
\* as it was, from Processing and from Idle alike; a second release in a row
\* changes nothing; an acquire that directly follows a release succeeds.
ReleaseContract ==
    /\ IsRelease =>
          /\ last.res = Ok(Unit)
          /\ ~session.is_processing
          /\ session.data = last.pre.data
    /\ IsRelease /\ last.prev = "release" => session = last.pre
    /\ IsRelease /\ ~last.pre.is_processing => session = last.pre
    /\ IsAcquire /\ last.prev = "release" => last.res = Ok(Unit)

\* A release of an idle session directly after another release.
ReleaseWitness ==
    /\ IsRelease
    /\ last.prev = "release"
    /\ ~last.pre.is_processing
    /\ ~session.is_processing

-----------------------------------------------------------------------------
(* Properties of the pure functions, checked under SpecCalls *)

Calling(name) == call.fn = name

AllowedChars(s) == \A i \in 1..Len(s) : session_id_char_ok(s[i])

\* C5: validate_session_id(s) succeeds iff 1 <= len(s) <= 32 (len as str::len
\* gives it, in UTF-8 bytes) and every character is alphanumeric, '-' or '_';
\* an empty s gives InvalidSessionId, a length over 32 gives SessionIdTooLong
\* whatever the characters, otherwise a forbidden character gives
\* InvalidSessionIdFormat.
SessionIdContract ==
    Calling("validate_session_id") =>
        LET s == call.args[1]
            n == str_len(s)
        IN  /\ call.res.ok <=> (1 <= n /\ n <= 32 /\ AllowedChars(s))
            /\ n = 0 => call.res = Err("InvalidSessionId")
            /\ n > 32 => call.res = Err("SessionIdTooLong")
            /\ (1 <= n /\ n <= 32 /\ ~AllowedChars(s)) =>
                  call.res = Err("InvalidSessionIdFormat")

\* A session id that is too long and holds a forbidden character.
SessionIdWitness ==
    /\ Calling("validate_session_id")
    /\ str_len(call.args[1]) > 32
    /\ ~AllowedChars(call.args[1])
    /\ call.res = Err("SessionIdTooLong")

\* C6: validate_kill_data succeeds iff killer # victim, the teams differ and
\* neither address is the default; killer = victim gives InvalidKill (also
\* for two default addresses), equal teams with different addresses give
\* InvalidKill, and InvalidPlayer is returned exactly when both of these
\* checks pass and killer or victim is the default address.
KillDataContract ==
    Calling("validate_kill_data") =>
        LET killer == call.args[1]
            victim == call.args[2]
            killer_team == call.args[3]
            victim_team == call.args[4]
            hasDefault == killer = PubkeyDefault \/ victim = PubkeyDefault
        IN  /\ call.res.ok <=>
                  (killer # victim /\ killer_team # victim_team /\ ~hasDefault)
            /\ killer = victim => call.res = Err("InvalidKill")
            /\ (killer # victim /\ killer_team = victim_team) =>
                  call.res = Err("InvalidKill")
            /\ call.res = Err("InvalidPlayer") <=>
                  (killer # victim /\ killer_team # victim_team /\ hasDefault)

\* Killer and victim both the default address, on different teams.
KillDataWitness ==
    /\ Calling("validate_kill_data")
    /\ call.args[1] = PubkeyDefault
    /\ call.args[2] = PubkeyDefault
    /\ call.args[3] # call.args[4]
    /\ call.res = Err("InvalidKill")

InU64(x) == BLeq(x, U64Max)

\* C7: safe_add, safe_subtract and safe_multiply return the exact a+b, a-b,
\* a*b when it lies in 0..2^64-1 and never a wrapped value; otherwise safe_add
\* and safe_multiply fail with ArithmeticOverflow and safe_subtract fails
\* with ArithmeticUnderflow (b > a).
SafeArithmeticExact ==
    LET a == call.args[1]
        b == call.args[2]
    IN  /\ Calling("safe_add") =>
              /\ InU64(BAdd(a, b)) => call.res = Ok(BAdd(a, b))
              /\ ~InU64(BAdd(a, b)) => call.res = Err("ArithmeticOverflow")
              /\ call.res.ok => BSub(call.res.val, b) = a
              /\ ~call.res.ok => BLess(BSub(U64Max, b), a)
        /\ Calling("safe_subtract") =>
              /\ BLeq(b, a) => call.res.ok /\ BAdd(call.res.val, b) = a
              /\ BLess(a, b) => call.res = Err("ArithmeticUnderflow")
        /\ Calling("safe_multiply") =>
              /\ InU64(BMul(a, b)) => call.res = Ok(BMul(a, b))
              /\ ~InU64(BMul(a, b)) => call.res = Err("ArithmeticOverflow")
              /\ (call.res.ok /\ b # <<>>) =>
                    BDivMod(call.res.val, b) = <<a, (<<>>)>>
              /\ ~call.res.ok =>
                    b # <<>> /\ BLess(BDivMod(U64Max, b)[1], a)

\* A product beyond 2^64-1 whose low 64 bits are not zero.
SafeArithmeticWitness ==
    /\ Calling("safe_multiply")
    /\ call.args = <<U64Max, <<2>>>>
    /\ call.res = Err("ArithmeticOverflow")

\* C8: safe_divide(a, 0) fails with ArithmeticError; for b > 0 it succeeds
\* with the q such that q*b <= a < (q+1)*b; it never fails with
\* ArithmeticOverflow.
SafeDivideContract ==
    Calling("safe_divide") =>
        LET a == call.args[1]
            b == call.args[2]
            q == call.res.val
        IN  /\ b = <<>> => call.res = Err("ArithmeticError")
            /\ b # <<>> =>
                  /\ call.res.ok
                  /\ InU64(q)
                  /\ BLeq(BMul(q, b), a)
                  /\ BLess(a, BMul(BAdd(q, <<1>>), b))
            /\ call.res.err # "ArithmeticOverflow"

\* A division of a non-zero value by zero.
SafeDivideWitness ==
    /\ Calling("safe_divide")
    /\ call.args = <<FromNat(10), (<<>>)>>
    /\ call.res = Err("ArithmeticError")

\* C9: safe_earnings_calculation(k, bet) returns floor(k*bet/10) when
\* k*bet <= 2^64-1 and fails with ArithmeticOverflow otherwise; it never
\* fails with ArithmeticError.
EarningsContract ==
    Calling("safe_earnings_calculation") =>
        LET p == BMul(FromNat(call.args[1]), call.args[2])
            e == call.res.val
        IN  /\ InU64(p) =>
                  /\ call.res.ok
                  /\ BLeq(BMul(FromNat(10), e), p)
                  /\ BLess(p, BAdd(BMul(FromNat(10), e), FromNat(10)))
            /\ ~InU64(p) => call.res = Err("ArithmeticOverflow")
            /\ call.res.err # "ArithmeticError"

\* The largest kills-and-spawns count on a bet that overflows the product.
EarningsWitness ==
    /\ Calling("safe_earnings_calculation")
    /\ call.args[1] = U16Max
    /\ ~InU64(BMul(FromNat(U16Max), call.args[2]))
    /\ call.res = Err("ArithmeticOverflow")

\* C10: for every bet validate_bet_amount accepts and every u16 count,
\* safe_earnings_calculation succeeds with an e such that
\* 10*e <= count*bet < 10*e + 10.
AcceptedBetPayout ==
    (Calling("safe_earnings_calculation") /\ validate_bet_amount(call.args[2]).ok) =>
        LET p == BMul(FromNat(call.args[1]), call.args[2])
            e == call.res.val
        IN  /\ call.res.ok
            /\ BLeq(BMul(FromNat(10), e), p)
            /\ BLess(p, BAdd(BMul(FromNat(10), e), FromNat(10)))

\* The largest count on the largest accepted bet.
AcceptedBetWitness ==
    /\ Calling("safe_earnings_calculation")
    /\ call.args = <<U16Max, MaxBetAmount>>
    /\ validate_bet_amount(call.args[2]).ok
    /\ call.res.ok

====
